---- MODULE Spec2Model ----
(***************************************************************************)
(* State-machine model of the api-server of yt-downloader: guest admission *)
(* (checkRateLimit), the guest and the authenticated job-creation routes,  *)
(* the Redis job queues and progress hashes, the status routes and the     *)
(* private-token middleware.  Every asynchronous handler is cut at its     *)
(* awaits: one action is one Redis/MongoDB command together with the       *)
(* synchronous code that runs when its reply arrives.                      *)
(***************************************************************************)
EXTENDS Integers, Sequences, FiniteSets, TLC

\* ------------------------------------------------------------------ bounds
\* Number of request slots; every slot serves one HTTP request.
MaxReq == 4
\* Time ranges under validation start between -1 and MaxStart and have a
\* duration within Slack of 0 or of the route's ceiling.
MaxStart == 2
Slack == 2
\* Number of requests the owners make when they are served one at a time.
MaxSeqReq == 3
\* Number of requests that may be in service at the same time.
MaxInFlight == 2
\* Number of distinct guest fingerprints.
NumFingerprints == 1
\* The clock is in milliseconds and advances TickMs at a time.
TickMs == 500
\* The clock advances at most MaxTicks times.
MaxTicks == 5
\* A UTC day, scaled down to DaySeconds seconds.
DaySeconds == 2
\* config.publicApi.rateLimit (PUBLIC_API_RATE_LIMIT), scaled down.
rateLimit == 2
\* Number of records the owners' create routes make.
MaxVideos == 1
\* Number of auth request slots (logins and calls of protected routes).
MaxAuthReq == 2
\* The requests of one session's scenario (a login, then calls with its token).
MaxSessionReq == 4
\* The logins of that scenario: they are its first requests.
MaxLogins == 1
\* config.jwt.privateExpiration (seconds), scaled down.
privateExpiration == 1
\* The expiry, in seconds, requirePrivateToken gives the cache entry it
\* writes (86400), scaled down.
sessionCacheSeconds == 1

\* ------------------------------------------------------- program constants
\* config.publicApi.maxClipDuration
maxClipDuration == 40
\* Milliseconds in a second (Date arithmetic of checkRateLimit).
MsPerSecond == 1000
\* config.maxVideoDuration
maxVideoDuration == 3600

Slots == 1 .. MaxReq
Fingerprints == 1 .. NumFingerprints
DayMs == DaySeconds * MsPerSecond
MaxTime == MaxTicks * TickMs

\* Guest placeholder owner, ObjectId('000000000000000000000000').
GuestUser == "guest"

\* The users records can belong to, and the users private tokens
\* authenticate.
Users == {"u1", "u2"}
Callers == {"u1"}

\* "No expiry" of a Redis key.
NoExpiry == -1

VARIABLES
    now,          \* the clock, in milliseconds
    counter,      \* Redis rate_limit:public:<fp>; 0 = the key does not exist
    ctrExpireAt,  \* the time at which that key expires, or NoExpiry
    videos,       \* MongoDB collection videos, by _id
    queues,       \* Redis lists config.queues.download / .encode
    progress,     \* Redis hashes job:<jobId>:progress
    inflight,     \* the jobs a worker has taken from a queue and not finished
    stat,         \* the status request in service, and its response
    req,          \* the request served in each slot: position and locals
    sessions,     \* MongoDB collection sessions, by _id
    cache,        \* Redis session:<sha256(token)>: the time the entry expires
    auth,         \* the auth / protected request served in each slot
    users,        \* MongoDB collection users: each user's public_token
    range         \* a time range under validation: the inputs and the verdict

authVars == <<sessions, cache, auth, users, range>>

vars == <<now, counter, ctrExpireAt, videos, queues, progress, inflight, stat, req,
          sessions, cache, auth, users, range>>

\* ------------------------------------------------------------------ values
NoVideo ==
    [status |-> "none", user_id |-> "none", job_type |-> "none", job_id |-> 0,
     file_path |-> FALSE, storage_mode |-> "none", error_message |-> FALSE]

NoProgress == [status |-> "none", current_phase |-> "none", ttl |-> FALSE]

\* The hash queueService writes when it enqueues a job.
QueuedProgress == [status |-> "queued", current_phase |-> "queued", ttl |-> FALSE]

\* Request bodies of POST /api/public/clip.  A time is the text the client
\* sent: numeric text with its value, or text that is no number.
Num(n) == [numeric |-> TRUE, val |-> n]
NotANumber == [numeric |-> FALSE, val |-> 0]

ClipBodies ==
    { [file |-> FALSE, fields |-> TRUE, url |-> "ok", start |-> Num(0), end |-> Num(maxClipDuration)],
      [file |-> FALSE, fields |-> TRUE, url |-> "ok", start |-> Num(0), end |-> Num(maxClipDuration + 5)],
      [file |-> FALSE, fields |-> TRUE, url |-> "ok", start |-> Num(0), end |-> NotANumber],
      [file |-> FALSE, fields |-> TRUE, url |-> "bad", start |-> Num(0), end |-> Num(10)],
      [file |-> FALSE, fields |-> FALSE, url |-> "ok", start |-> Num(0), end |-> Num(10)] }

\* Request bodies of POST /api/video/save, at and above config.maxVideoDuration.
SaveBodies ==
    { [file |-> FALSE, fields |-> TRUE, url |-> "ok", start |-> Num(0), end |-> Num(maxVideoDuration)],
      [file |-> FALSE, fields |-> TRUE, url |-> "ok", start |-> Num(0), end |-> Num(maxVideoDuration + 1)] }

\* The codec and preset of an encode request: the defaults, a codec that is
\* not supported, a preset that is not supported; NoParams on the other
\* routes.
EncodeParams ==
    { [video_codec |-> "h264", quality_preset |-> "high"],
      [video_codec |-> "vp9", quality_preset |-> "high"],
      [video_codec |-> "h264", quality_preset |-> "ultra"] }

NoParams == [video_codec |-> "none", quality_preset |-> "none"]

\* The codec and preset of a guest encode request: the defaults, or a preset
\* that is not supported.
GuestEncodeParams == {p \in EncodeParams : p.video_codec = "h264"}

\* supportedCodecs of POST /api/encode/start: every codec has the same
\* presets.
supportedCodecs == {"h264", "h265", "av1"}
supportedPresets == {"lossless", "high", "medium"}

\* The two checks of POST /api/encode/start on video_codec and
\* quality_preset.
codecValid(p) == p.video_codec \in supportedCodecs /\ p.quality_preset \in supportedPresets

\* Request bodies of POST /api/public/encode: with or without an uploaded file.
EncodeBodies ==
    { [file |-> f, fields |-> TRUE, url |-> "none", start |-> Num(0), end |-> Num(0)] :
        f \in BOOLEAN }

\* A request: the route (kind), the position (pc) and the handler's locals.
\* valid: whether the body passes the route's validations; current: the
\* count checkRateLimit read; secs: its secondsUntilReset; day: the UTC day
\* of its now; res: the HTTP status answered.
\* user: the owner the private token authenticated (req.userId); seen: the
\* status of the record as the route's findById read it; msg: which answer
\* the route gave.
\* seenJob: the job_id of the record as findById read it.
IdleReq ==
    [kind |-> "none", pc |-> "idle", fp |-> 0, valid |-> FALSE,
     current |-> 0, secs |-> 0, day |-> 0, allowed |-> "unknown", remaining |-> 0,
     user |-> "none", seen |-> "none", seenJob |-> 0, vid |-> 0, jobId |-> 0,
     res |-> 0, msg |-> "none", params |-> NoParams]

\* A status request: the route, its position, the job or record asked for,
\* the progress hash read, and the response.
NoResponse ==
    [status |-> "none", current_phase |-> "none", progress |-> "none",
     file |-> FALSE, error_message |-> FALSE]

IdleStat ==
    [route |-> "none", pc |-> "idle", id |-> 0, prog |-> NoProgress, res |-> 0,
     resp |-> NoResponse]

\* A token: the secret it is signed with, its payload (type, session_id,
\* user_id) and exp, in seconds.
NoToken == [sig |-> "none", type |-> "none", sid |-> 0, user |-> "none", exp |-> 0]

\* No time range under validation. A range has the route that validates it
\* (clip: the guest ceiling, save: maxVideoDuration), startNum and endNum.
NoRange == [pc |-> "none", route |-> "none", startTime |-> 0, endTime |-> 0, valid |-> FALSE]

\* A Session document; token is "" until login stores the generated token.
NoSession == [exists |-> FALSE, user |-> "none", expires_at |-> 0, token |-> "none"]

\* No cache entry under a key.
NoEntry == 0

\* A stored public token: the token and the second jwt.sign stamped on it
\* (iat); NoPublicToken when the user has none.
NoPublicToken == [tok |-> NoToken, iat |-> 0]

AuthSlots == 1 .. MaxSessionReq

\* The slots the specifications of all kinds of requests use.
AuthReqs == 1 .. MaxAuthReq

\* An auth request: the route (op), the position, the token presented (or,
\* for a login, generated), expiresAt of a login, the replies of the cache
\* and of the session lookup, whether the protected handler ran, the HTTP
\* status and the reason of a 401; afterLogout records whether, when the
\* request arrived, a logout of the token it presents had completed and the
\* token had no cache entry.
IdleAuth ==
    [op |-> "none", pc |-> "idle", tok |-> NoToken, expiresAt |-> 0,
     cached |-> FALSE, session |-> FALSE, ran |-> FALSE, res |-> 0, why |-> "none",
     afterLogout |-> FALSE, public_token |-> NoPublicToken, expired |-> FALSE]

\* --------------------------------------------------------- pure functions
\* parseInt(text, 10)
parseInt(t) == IF t.numeric THEN [nan |-> FALSE, val |-> t.val] ELSE [nan |-> TRUE, val |-> 0]

\* A validateTimeRange that refuses a duration equal to the ceiling.
validateTimeRangeBelowCeiling(startTime, endTime, maxDuration) ==
    IF startTime < 0 THEN FALSE
    ELSE IF endTime <= startTime THEN FALSE
    ELSE IF endTime - startTime >= maxDuration THEN FALSE
    ELSE TRUE

\* validateTimeRange(startTime, endTime, maxDuration)
validateTimeRange(startTime, endTime, maxDuration) ==
    IF startTime < 0 THEN FALSE
    ELSE IF endTime <= startTime THEN FALSE
    ELSE IF endTime - startTime > maxDuration THEN FALSE
    ELSE TRUE

\* The checks of POST /api/public/clip between the admission check and
\* Video.create: required fields, validateYoutubeUrl, parseInt/isNaN,
\* validateTimeRange against the guest ceiling.
clipValid(b) ==
    /\ b.fields
    /\ b.url = "ok"
    /\ ~parseInt(b.start).nan
    /\ ~parseInt(b.end).nan
    /\ validateTimeRange(parseInt(b.start).val, parseInt(b.end).val, maxClipDuration)

\* The checks of POST /api/video/save before Video.create, against
\* config.maxVideoDuration.
saveValid(b) ==
    /\ b.fields
    /\ b.url = "ok"
    /\ ~parseInt(b.start).nan
    /\ ~parseInt(b.end).nan
    /\ validateTimeRange(parseInt(b.start).val, parseInt(b.end).val, maxVideoDuration)

\* The check of POST /api/public/encode: a file was uploaded.
encodeValid(b) == b.file

bodyValid(kind, b) == IF kind = "clip" THEN clipValid(b) ELSE encodeValid(b)

\* The UTC day a time lies in.
DayOf(t) == t \div DayMs

\* resetAt: now with setUTCHours(23, 59, 59, 999), the last millisecond of
\* now's day.
resetAtOf(t) == DayOf(t) * DayMs + DayMs - 1

\* Math.ceil(x / 1000), x >= 0
ceilSeconds(x) == (x + MsPerSecond - 1) \div MsPerSecond

\* Math.ceil((resetAt.getTime() - now.getTime()) / 1000)
secondsUntilReset(t) == ceilSeconds(resetAtOf(t) - t)

\* ------------------------------------------------------------------- Init
InitStores ==
    /\ now = 0
    /\ counter = [f \in Fingerprints |-> 0]
    /\ ctrExpireAt = [f \in Fingerprints |-> NoExpiry]
    /\ videos = [v \in Slots |-> NoVideo]
    /\ queues = [k \in {"download", "encode"} |-> <<>>]
    /\ progress = [j \in Slots |-> NoProgress]
    /\ inflight = {}
    /\ stat = IdleStat
    /\ req = [r \in Slots |-> IdleReq]
    /\ sessions = [a \in AuthSlots |-> NoSession]
    /\ cache = [a \in AuthSlots |-> NoEntry]
    /\ auth = [a \in AuthSlots |-> IdleAuth]
    /\ users = [u \in Users |-> NoPublicToken]

Init ==
    /\ InitStores
    /\ range = NoRange

\* A request ends: the response is sent with HTTP status code (the locals
\* that are dead from here on are cleared).
Answer(q, code) ==
    [q EXCEPT !.pc = "done", !.res = code, !.kind = "none", !.valid = FALSE,
              !.current = 0, !.secs = 0, !.user = "none", !.params = NoParams]

Respond(r, code) == Answer(req[r], code)

\* ------------------------------------------------------------ Redis, clock
\* Redis removes a key once its expiry time is reached.
ExpireKeys(t) ==
    /\ counter' = [f \in Fingerprints |->
                     IF ctrExpireAt[f] # NoExpiry /\ ctrExpireAt[f] <= t THEN 0 ELSE counter[f]]
    /\ ctrExpireAt' = [f \in Fingerprints |->
                     IF ctrExpireAt[f] # NoExpiry /\ ctrExpireAt[f] <= t THEN NoExpiry
                     ELSE ctrExpireAt[f]]

\* Time passes.
Tick ==
    /\ now + TickMs <= MaxTime
    /\ now' = now + TickMs
    /\ ExpireKeys(now + TickMs)
    /\ cache' = [a \in AuthSlots |-> IF cache[a] # NoEntry /\ cache[a] <= now + TickMs
                                     THEN NoEntry ELSE cache[a]]
    /\ UNCHANGED <<videos, queues, progress, inflight, stat, req, sessions, auth, users,
                   range>>

\* TTL key: -2 when the key does not exist, -1 when it has no expiry, else
\* the seconds it has left.
redisTtl(f) ==
    IF counter[f] = 0 THEN -2
    ELSE IF ctrExpireAt[f] = NoExpiry THEN -1
    ELSE (ctrExpireAt[f] - now) \div MsPerSecond

\* EXPIRE key seconds: nothing on a missing key; a timeout that is not
\* positive deletes the key.
redisExpireCounter(f, seconds) ==
    IF counter[f] = 0 THEN UNCHANGED <<counter, ctrExpireAt>>
    ELSE IF seconds <= 0
    THEN /\ counter' = [counter EXCEPT ![f] = 0]
         /\ ctrExpireAt' = [ctrExpireAt EXCEPT ![f] = NoExpiry]
    ELSE /\ ctrExpireAt' = [ctrExpireAt EXCEPT ![f] = now + seconds * MsPerSecond]
         /\ UNCHANGED counter

\* The positions at which a request waits for a Redis reply.
RedisPcs == {"rl_get", "rl_incr", "rl_ttl", "rl_expire", "rpush", "hset", "pexpire"}

\* A route that goes on to create the job when a command of checkRateLimit
\* rejects.
RedisThrowsFailOpen(r) ==
    /\ req[r].pc \in RedisPcs
    /\ req' = [req EXCEPT ![r] =
                 IF req[r].pc \in {"rl_get", "rl_incr", "rl_ttl", "rl_expire"} /\ req[r].valid
                 THEN [req[r] EXCEPT !.pc = "create"]
                 ELSE Respond(r, 500)]
    /\ UNCHANGED <<now, counter, ctrExpireAt, videos, queues, progress, inflight, stat, authVars>>

\* A Redis command rejects (the store is unreachable): the await throws and
\* the route's catch block answers 500.
RedisThrows(r) ==
    /\ req[r].pc \in RedisPcs
    /\ req' = [req EXCEPT ![r] = Respond(r, 500)]
    /\ UNCHANGED <<now, counter, ctrExpireAt, videos, queues, progress, inflight, stat, authVars>>

\* The requests in service.
InFlight == {r \in Slots : req[r].pc \notin {"idle", "done"}}

\* A request arrives and takes the next slot, when fewer than n requests are
\* in service.
Arrives(r, n) ==
    /\ req[r].pc = "idle"
    /\ stat.pc \in {"idle", "done"}
    /\ \A s \in Slots : s < r => req[s].pc # "idle"
    /\ Cardinality(InFlight) < n

\* ------------------------------------------- guest routes: admission check
\* A guest request arrives at POST /api/public/clip or /api/public/encode:
\* getFingerprint, then checkRateLimit sends GET.
GuestStart(r, n) ==
    /\ Arrives(r, n)
    /\ \E k \in {"clip", "encode"}, f \in Fingerprints :
         \E b \in (IF k = "clip" THEN ClipBodies ELSE EncodeBodies),
            p \in (IF k = "clip" THEN {NoParams} ELSE GuestEncodeParams) :
            req' = [req EXCEPT ![r] = [IdleReq EXCEPT !.kind = k, !.pc = "rl_get",
                                                     !.fp = f, !.valid = bodyValid(k, b),
                                                     !.params = p]]
    /\ UNCHANGED <<now, counter, ctrExpireAt, videos, queues, progress, inflight, stat, authVars>>

\* A checkRateLimit that reports what remained before the call it admits.
afterAdmissionBeforeIncrement(q) ==
    LET a == [q EXCEPT !.allowed = "yes", !.remaining = rateLimit - q.current]
    IN  IF ~q.valid THEN Answer(a, 400)
        ELSE IF q.kind = "clip"
        THEN [a EXCEPT !.pc = "create", !.valid = FALSE, !.current = 0, !.secs = 0]
        ELSE [a EXCEPT !.pc = "upload", !.valid = FALSE, !.current = 0, !.secs = 0]

\* What the route does once checkRateLimit has returned allowed: the
\* validations, then Video.create (clip) or the S3 upload (encode).
afterAdmission(q) ==
    LET a == [q EXCEPT !.allowed = "yes", !.remaining = rateLimit - q.current - 1]
    IN  IF ~q.valid THEN Answer(a, 400)
        ELSE IF q.kind = "clip"
        THEN [a EXCEPT !.pc = "create", !.valid = FALSE, !.current = 0, !.secs = 0]
        ELSE [a EXCEPT !.pc = "upload", !.valid = FALSE, !.current = 0, !.secs = 0]

\* A checkRateLimit that counts the calls it refuses too.
RlGetCountingRefusals(r) ==
    /\ req[r].pc = "rl_get"
    /\ LET cur == counter[req[r].fp]
           q == [req[r] EXCEPT !.current = cur, !.secs = secondsUntilReset(now),
                               !.day = DayOf(now)]
       IN  /\ req' = [req EXCEPT ![r] =
                        IF cur >= rateLimit
                        THEN Answer([q EXCEPT !.allowed = "no", !.remaining = 0], 429)
                        ELSE [q EXCEPT !.pc = "rl_incr"]]
           /\ counter' = IF cur >= rateLimit THEN [counter EXCEPT ![req[r].fp] = @ + 1]
                         ELSE counter
    /\ UNCHANGED <<now, ctrExpireAt, videos, queues, progress, inflight, stat, authVars>>

\* checkRateLimit, lines 47-57: GET replies; now and resetAt are taken; a
\* count at the limit is refused, otherwise INCR is sent.
RlGet(r) ==
    /\ req[r].pc = "rl_get"
    /\ LET cur == counter[req[r].fp]
           q == [req[r] EXCEPT !.current = cur, !.secs = secondsUntilReset(now),
                               !.day = DayOf(now)]
       IN  req' = [req EXCEPT ![r] =
                     IF cur >= rateLimit
                     THEN Answer([q EXCEPT !.allowed = "no", !.remaining = 0], 429)
                     ELSE [q EXCEPT !.pc = "rl_incr"]]
    /\ UNCHANGED <<now, counter, ctrExpireAt, videos, queues, progress, inflight, stat, authVars>>

\* checkRateLimit, line 60: INCR (creates the key, without expiry, when it
\* does not exist); TTL is sent.
RlIncr(r) ==
    /\ req[r].pc = "rl_incr"
    /\ counter' = [counter EXCEPT ![req[r].fp] = @ + 1]
    /\ req' = [req EXCEPT ![r].pc = "rl_ttl"]
    /\ UNCHANGED <<now, ctrExpireAt, videos, queues, progress, inflight, stat, authVars>>

\* checkRateLimit, lines 62-68: TTL replies; EXPIRE is sent when it is
\* negative, otherwise the call returns allowed.
RlTtl(r) ==
    /\ req[r].pc = "rl_ttl"
    /\ req' = [req EXCEPT ![r] =
                 IF redisTtl(req[r].fp) < 0 THEN [req[r] EXCEPT !.pc = "rl_expire"]
                 ELSE afterAdmission(req[r])]
    /\ UNCHANGED <<now, counter, ctrExpireAt, videos, queues, progress, inflight, stat, authVars>>

\* checkRateLimit, lines 64-68: EXPIRE key secondsUntilReset, computed from
\* the now taken before the increment; the call returns allowed.
RlExpire(r) ==
    /\ req[r].pc = "rl_expire"
    /\ redisExpireCounter(req[r].fp, req[r].secs)
    /\ req' = [req EXCEPT ![r] = afterAdmission(req[r])]
    /\ UNCHANGED <<now, videos, queues, progress, inflight, stat, authVars>>

\* ---------------------------------------------- guest routes: job creation
\* POST /api/public/encode: storageService.uploadFile returns success or not.
GuestUpload(r) ==
    /\ req[r].pc = "upload"
    /\ \E ok \in BOOLEAN :
         req' = [req EXCEPT ![r] = IF ok THEN [req[r] EXCEPT !.pc = "create"]
                                   ELSE Respond(r, 500)]
    /\ UNCHANGED <<now, counter, ctrExpireAt, videos, queues, progress, inflight, stat, authVars>>

\* A queueService with one list for both kinds of job.
queueOfSingleChannel(kind) == "download"

\* The queue a route's job goes to.
queueOf(kind) == IF kind \in {"clip", "dlstart"} THEN "download" ELSE "encode"

\* Video.create of the guest routes: a record of the guest owner with
\* status 'processing'; addDownloadJob/addEncodeJob then sends RPUSH.
GuestCreate(r) ==
    /\ req[r].pc = "create"
    /\ videos' = [videos EXCEPT ![r] =
                    [NoVideo EXCEPT !.status = "processing", !.user_id = GuestUser,
                                    !.job_type = IF req[r].kind = "clip" THEN "download"
                                                 ELSE "encode",
                                    !.storage_mode = IF req[r].kind = "encode" THEN "s3"
                                                     ELSE "local"]]
    /\ req' = [req EXCEPT ![r].vid = r, ![r].pc = "rpush"]
    /\ UNCHANGED <<now, counter, ctrExpireAt, queues, progress, inflight, stat, authVars>>

\* queueService.addDownloadJob/addEncodeJob: RPUSH of the job, whose job_id
\* is a fresh makeId(32).
Rpush(r) ==
    /\ req[r].pc = "rpush"
    /\ queues' = [queues EXCEPT ![queueOf(req[r].kind)] =
                    Append(@, [job_id |-> r, video_id |-> req[r].vid,
                               video_codec |-> req[r].params.video_codec,
                               quality_preset |-> req[r].params.quality_preset])]
    /\ req' = [req EXCEPT ![r].jobId = r, ![r].pc = "hset"]
    /\ UNCHANGED <<now, counter, ctrExpireAt, videos, progress, inflight, stat, authVars>>

\* queueService: HSET job:<jobId>:progress with status and phase 'queued'.
Hset(r) ==
    /\ req[r].pc = "hset"
    /\ progress' = [progress EXCEPT ![req[r].jobId] =
                      [QueuedProgress EXCEPT !.ttl = progress[req[r].jobId].ttl]]
    /\ req' = [req EXCEPT ![r].pc = "pexpire"]
    /\ UNCHANGED <<now, counter, ctrExpireAt, videos, queues, inflight, stat, authVars>>

\* queueService: EXPIRE job:<jobId>:progress 86400; the job id is returned
\* and the route sends video.save().
Pexpire(r) ==
    /\ req[r].pc = "pexpire"
    /\ progress' = [progress EXCEPT ![req[r].jobId] =
                      IF @.status = "none" THEN @ ELSE [@ EXCEPT !.ttl = TRUE]]
    /\ req' = [req EXCEPT ![r].pc = "save"]
    /\ UNCHANGED <<now, counter, ctrExpireAt, videos, queues, inflight, stat, authVars>>

\* Guest routes: video.job_id = jobId; video.save(); 201 with the job id.
GuestSave(r) ==
    /\ req[r].pc = "save"
    /\ req[r].kind \in {"clip", "encode"}
    /\ videos' = [videos EXCEPT ![req[r].vid].job_id = req[r].jobId]
    /\ req' = [req EXCEPT ![r] = Respond(r, 201)]
    /\ UNCHANGED <<now, counter, ctrExpireAt, queues, progress, inflight, stat, authVars>>

\* ------------------------------------------- authenticated routes: create
\* The ids of the records that exist, and an id no record and no job has.
Created == {v \in Slots : videos[v].status # "none"}
NoId == 0

\* The record Video.findById returns, NoVideo for null.
findById(v) == IF v \in Created THEN videos[v] ELSE NoVideo

\* POST /api/video/save (requirePublicToken) by caller c, who presents
\* generatePublicToken(c): the validations, then Video.create of a pending
\* download record owned by the user_id u of the body; 201 (the answered
\* request keeps req.userId, the owner of the token).
SaveVideo(r, n) ==
    /\ Arrives(r, n)
    /\ Cardinality(Created) < MaxVideos
    /\ \E b \in SaveBodies, u \in Users, c \in Callers :
         IF saveValid(b)
         THEN /\ videos' = [videos EXCEPT ![r] =
                              [NoVideo EXCEPT !.status = "pending", !.user_id = u,
                                              !.job_type = "download",
                                              !.storage_mode = "local"]]
              /\ req' = [req EXCEPT ![r] =
                           [Answer([IdleReq EXCEPT !.vid = r], 201) EXCEPT !.user = c]]
         ELSE /\ req' = [req EXCEPT ![r] = Answer(IdleReq, 400)]
              /\ UNCHANGED videos
    /\ UNCHANGED <<now, counter, ctrExpireAt, queues, progress, inflight, stat, authVars>>

\* POST /api/encode/upload (requirePrivateToken): the file check, the S3
\* upload, then Video.create of a pending encode record owned by the
\* caller; 201.
UploadVideo(r, n) ==
    /\ Arrives(r, n)
    /\ Cardinality(Created) < MaxVideos
    /\ \E b \in EncodeBodies, u \in Callers, uploadSuccess \in BOOLEAN :
         IF ~encodeValid(b)
         THEN /\ req' = [req EXCEPT ![r] = Answer(IdleReq, 400)]
              /\ UNCHANGED videos
         ELSE IF ~uploadSuccess
         THEN /\ req' = [req EXCEPT ![r] = Answer(IdleReq, 500)]
              /\ UNCHANGED videos
         ELSE /\ videos' = [videos EXCEPT ![r] =
                              [NoVideo EXCEPT !.status = "pending", !.user_id = u,
                                              !.job_type = "encode",
                                              !.storage_mode = "s3"]]
              /\ req' = [req EXCEPT ![r] = Answer([IdleReq EXCEPT !.vid = r], 201)]
    /\ UNCHANGED <<now, counter, ctrExpireAt, queues, progress, inflight, stat, authVars>>

\* -------------------------------------------- authenticated routes: start
\* Start routes that refuse with 429 while a fingerprint counter stands at
\* the limit.
StartArrivesRateLimited(r, n) ==
    /\ Arrives(r, n)
    /\ \E k \in {"dlstart", "encstart"}, u \in Callers, v \in Created \cup {NoId},
          ok \in BOOLEAN, p \in EncodeParams \cup {NoParams} :
         /\ IF k = "encstart" THEN p \in EncodeParams /\ ok = codecValid(p)
            ELSE p = NoParams
         /\ req' = [req EXCEPT ![r] =
                      IF \E f \in Fingerprints : counter[f] >= rateLimit
                      THEN Answer(IdleReq, 429)
                      ELSE IF ok THEN [IdleReq EXCEPT !.kind = k, !.pc = "findById",
                                                      !.user = u, !.vid = v, !.params = p]
                      ELSE Answer(IdleReq, 400)]
    /\ UNCHANGED <<now, counter, ctrExpireAt, videos, queues, progress, inflight, stat, authVars>>

\* POST /api/video/download/:videoId and POST /api/encode/start/:encodeId
\* (requirePrivateToken) arrive, for a record that exists or for an id no
\* record has: the format validation (download) or the codec and preset
\* validation (encode), then Video.findById is sent.
StartArrives(r, n) ==
    /\ Arrives(r, n)
    /\ \E k \in {"dlstart", "encstart"}, u \in Callers, v \in Created \cup {NoId},
          ok \in BOOLEAN, p \in EncodeParams \cup {NoParams} :
         /\ IF k = "encstart" THEN p \in EncodeParams /\ ok = codecValid(p)
            ELSE p = NoParams
         /\ req' = [req EXCEPT ![r] =
                      IF ok THEN [IdleReq EXCEPT !.kind = k, !.pc = "findById",
                                                 !.user = u, !.vid = v, !.params = p]
                      ELSE Answer(IdleReq, 400)]
    /\ UNCHANGED <<now, counter, ctrExpireAt, videos, queues, progress, inflight, stat, authVars>>

\* What POST /api/video/download/:videoId does with the record it read.
downloadBranch(q, d) ==
    IF d.status = "completed" /\ d.file_path /\ d.storage_mode = "s3"
    THEN Answer([q EXCEPT !.msg = "link"], 200)
    ELSE IF d.status = "processing" THEN [q EXCEPT !.pc = "hgetall"]
    ELSE [q EXCEPT !.pc = "rpush"]

\* What POST /api/encode/start/:encodeId does with the record it read.
encodeBranch(q, d) ==
    IF d.status = "processing" THEN Answer([q EXCEPT !.msg = "processing"], 202)
    ELSE IF d.status = "completed" THEN Answer([q EXCEPT !.msg = "already"], 200)
    ELSE [q EXCEPT !.pc = "rpush"]

\* Video.findById replies: 404, the ownership check, then the branch on the
\* status read.
FindById(r) ==
    /\ req[r].pc = "findById"
    /\ LET d == findById(req[r].vid)
           q == [req[r] EXCEPT !.seen = d.status, !.seenJob = d.job_id]
       IN  req' = [req EXCEPT ![r] =
                     IF d.status = "none" THEN Respond(r, 404)
                     ELSE IF d.user_id # req[r].user THEN Respond(r, 403)
                     ELSE IF req[r].kind = "dlstart" THEN downloadBranch(q, d)
                     ELSE encodeBranch(q, d)]
    /\ UNCHANGED <<now, counter, ctrExpireAt, videos, queues, progress, inflight, stat, authVars>>

\* POST /api/video/download/:videoId on a processing record: the progress
\* read replies; 202.
StartProgress(r) ==
    /\ req[r].pc = "hgetall"
    /\ req' = [req EXCEPT ![r] = Answer([req[r] EXCEPT !.msg = "processing"], 202)]
    /\ UNCHANGED <<now, counter, ctrExpireAt, videos, queues, progress, inflight, stat, authVars>>

\* The start routes, after the job is queued: status = 'processing', job_id
\* (the download route has cleared error_message of a failed record);
\* video.save() writes the modified paths; 200.
StartSave(r) ==
    /\ req[r].pc = "save"
    /\ req[r].kind \in {"dlstart", "encstart"}
    /\ videos' = [videos EXCEPT ![req[r].vid] =
                    [@ EXCEPT !.status = "processing", !.job_id = req[r].jobId,
                              !.error_message = IF req[r].kind = "dlstart" /\ req[r].seen = "failed"
                                                THEN FALSE ELSE @]]
    /\ req' = [req EXCEPT ![r] = Answer([req[r] EXCEPT !.msg = "queued"], 200)]
    /\ UNCHANGED <<now, counter, ctrExpireAt, queues, progress, inflight, stat, authVars>>

\* ------------------------------------------------------ worker and cleanup
\* The messages in the queues.
Queued == {queues[k][i] : k \in {"download"}, i \in 1 .. Len(queues["download"])}
            \cup {queues[k][i] : k \in {"encode"}, i \in 1 .. Len(queues["encode"])}

\* The live messages carrying record v: enqueued and not yet finished by a
\* worker.
LiveMessages(v) == {m \in Queued \cup inflight : m.video_id = v}

\* A worker takes the job at the head of queue k and reports its phase.
WorkerTake(k) ==
    /\ queues[k] # <<>>
    /\ LET m == Head(queues[k])
       IN  /\ inflight' = inflight \cup {m}
           /\ progress' = [progress EXCEPT ![m.job_id] =
                             [status |-> "processing",
                              current_phase |-> IF k = "download" THEN "downloading"
                                                ELSE "encoding",
                              ttl |-> @.ttl]]
    /\ queues' = [queues EXCEPT ![k] = Tail(@)]
    /\ UNCHANGED <<now, counter, ctrExpireAt, videos, stat, req, authVars>>

\* A worker finishes a job whose record is processing: completed with the
\* stored file, or failed with an error.
WorkerFinish(m) ==
    /\ m \in inflight
    /\ videos[m.video_id].status = "processing"
    /\ \E ok \in BOOLEAN :
         /\ videos' = [videos EXCEPT ![m.video_id] =
                         IF ok THEN [@ EXCEPT !.status = "completed", !.file_path = TRUE,
                                              !.storage_mode = "s3"]
                         ELSE [@ EXCEPT !.status = "failed", !.error_message = TRUE]]
         /\ progress' = [progress EXCEPT ![m.job_id] =
                           [status |-> IF ok THEN "completed" ELSE "failed",
                            current_phase |-> IF ok THEN "completed" ELSE "failed",
                            ttl |-> @.ttl]]
    /\ inflight' = inflight \ {m}
    /\ UNCHANGED <<now, counter, ctrExpireAt, queues, stat, req, authVars>>

\* A worker finishes a job before the request that queued it has saved
\* status 'processing': the record still has the status the request read.
WorkerFinishEarly(m) ==
    /\ m \in inflight
    /\ videos[m.video_id].status \in {"pending", "failed", "expired"}
    /\ \E r \in Slots : req[r].jobId = m.job_id /\ req[r].pc \in {"hset", "pexpire", "save"}
    /\ \E ok \in BOOLEAN :
         /\ videos' = [videos EXCEPT ![m.video_id] =
                         IF ok THEN [@ EXCEPT !.status = "completed", !.file_path = TRUE,
                                              !.storage_mode = "s3"]
                         ELSE [@ EXCEPT !.status = "failed", !.error_message = TRUE]]
         /\ progress' = [progress EXCEPT ![m.job_id] =
                           [status |-> IF ok THEN "completed" ELSE "failed",
                            current_phase |-> IF ok THEN "completed" ELSE "failed",
                            ttl |-> @.ttl]]
    /\ inflight' = inflight \ {m}
    /\ UNCHANGED <<now, counter, ctrExpireAt, queues, stat, req, authVars>>

\* The cleanup sweep expires a record past its retention and deletes its
\* file.
Cleanup(v) ==
    /\ videos[v].status \in {"completed", "failed"}
    /\ videos' = [videos EXCEPT ![v].status = "expired", ![v].file_path = FALSE]
    /\ UNCHANGED <<now, counter, ctrExpireAt, queues, progress, inflight, stat, req, authVars>>

\* Redis removes a progress hash whose expiry (EXPIRE ... 86400) is reached.
ProgressExpires(j) ==
    /\ progress[j].status # "none"
    /\ progress[j].ttl
    /\ progress' = [progress EXCEPT ![j] = NoProgress]
    /\ UNCHANGED <<now, counter, ctrExpireAt, videos, queues, inflight, stat, req, authVars>>

\* ------------------------------------------------------------ status routes
\* progressService.getProgress: the hash, or null when it is empty.
getProgress(j) == IF j \in Slots THEN progress[j] ELSE NoProgress

\* A status request arrives when no request is in service: GET /api/public/status/:jobId sends the
\* progress read, GET /api/video/status/:videoId and
\* GET /api/encode/status/:encodeId send Video.findById.
StatusArrives ==
    /\ stat.pc \in {"idle", "done"}
    /\ InFlight = {}
    /\ \E route \in {"public", "video", "encode"}, id \in Slots \cup {NoId} :
         /\ id \in (IF route = "public" THEN {r \in Slots : req[r].jobId # NoId}
                    ELSE Created) \cup {NoId}
         /\ stat' = [IdleStat EXCEPT !.route = route, !.id = id,
                                     !.pc = IF route = "public" THEN "hgetall" ELSE "findById"]
    /\ UNCHANGED <<now, counter, ctrExpireAt, videos, queues, progress, inflight, req, authVars>>

\* GET /api/public/status/:jobId: the progress read replies (null when the
\* read fails); Video.findOne({job_id}) is sent.
PublicStatusProgress ==
    /\ stat.route = "public"
    /\ stat.pc = "hgetall"
    /\ \E ok \in BOOLEAN :
         stat' = [stat EXCEPT !.prog = IF ok THEN getProgress(stat.id) ELSE NoProgress,
                              !.pc = "findOne"]
    /\ UNCHANGED <<now, counter, ctrExpireAt, videos, queues, progress, inflight, req, authVars>>

\* The record Video.findOne({ job_id }) returns, NoVideo for null.
findOneByJob(j) ==
    IF j # NoId /\ \E v \in Slots : videos[v].job_id = j
    THEN videos[CHOOSE v \in Slots : videos[v].job_id = j]
    ELSE NoVideo

\* GET /api/public/status/:jobId: findOne replies; the response merges the
\* record and the progress read before it.
PublicStatusRespond ==
    /\ stat.route = "public"
    /\ stat.pc = "findOne"
    /\ LET video == findOneByJob(stat.id)
           p == stat.prog
       IN  stat' = [stat EXCEPT
                      !.pc = "done", !.res = 200, !.prog = NoProgress,
                      !.resp = [status |-> IF video.status # "none" THEN video.status
                                           ELSE IF p.status # "none" THEN p.status
                                           ELSE "unknown",
                                current_phase |-> IF p.status # "none" THEN p.current_phase
                                                  ELSE "initializing",
                                progress |-> "none",
                                file |-> video.status = "completed" /\ video.file_path,
                                error_message |-> video.error_message]]
    /\ UNCHANGED <<now, counter, ctrExpireAt, videos, queues, progress, inflight, req, authVars>>

\* GET /api/video/status/:videoId and GET /api/encode/status/:encodeId:
\* findById replies; 404, 403, or the response built from the record; for a
\* processing record the progress read is sent.
OwnerStatusFind ==
    /\ stat.route \in {"video", "encode"}
    /\ stat.pc = "findById"
    /\ \E u \in Callers :
         LET video == findById(stat.id)
             response == [status |-> video.status, current_phase |-> "none",
                          progress |-> "none",
                          file |-> video.status = "completed" /\ video.file_path,
                          error_message |-> video.error_message]
         IN  stat' = IF video.status = "none" THEN [stat EXCEPT !.pc = "done", !.res = 404]
                     ELSE IF video.user_id # u THEN [stat EXCEPT !.pc = "done", !.res = 403]
                     ELSE IF video.status = "processing"
                     THEN [stat EXCEPT !.pc = "hgetall", !.resp = response,
                                       !.prog = [NoProgress EXCEPT !.status = "job",
                                                                   !.ttl = video.job_id # 0]]
                     ELSE [stat EXCEPT !.pc = "done", !.res = 200, !.resp = response]
    /\ UNCHANGED <<now, counter, ctrExpireAt, videos, queues, progress, inflight, req, authVars>>

\* The owner's status routes: the progress read replies; response.progress
\* is the hash, or { current_phase: 'initializing' } when there is none.
OwnerStatusProgress ==
    /\ stat.route \in {"video", "encode"}
    /\ stat.pc = "hgetall"
    /\ \E ok \in BOOLEAN :
         LET p == IF ok THEN getProgress(videos[stat.id].job_id) ELSE NoProgress
         IN  stat' = [stat EXCEPT !.pc = "done", !.res = 200, !.prog = NoProgress,
                                  !.resp.progress = IF p.status # "none" THEN p.current_phase
                                                    ELSE "initializing"]
    /\ UNCHANGED <<now, counter, ctrExpireAt, videos, queues, progress, inflight, req, authVars>>

\* ------------------------------------------------------ tokens, sessions
\* generatePrivateToken(userId, sessionId), signed at time t.
generatePrivateToken(u, sid, t) ==
    [sig |-> "private", type |-> "private", sid |-> sid, user |-> u,
     exp |-> t \div MsPerSecond + privateExpiration]

\* generatePublicToken(userId): no exp.
generatePublicToken(u) ==
    [sig |-> "public", type |-> "public", sid |-> 0, user |-> u, exp |-> 0]

\* A token signed with a secret that is not the server's.
ForgedToken(u, sid) ==
    [sig |-> "forged", type |-> "private", sid |-> sid, user |-> u, exp |-> 0]

\* jwt.verify(token, secret) at time t: the signature, then exp when the
\* token has one.
jwtVerify(tok, secret, t) ==
    /\ tok.sig = secret
    /\ (tok.type = "private" => t \div MsPerSecond < tok.exp)

\* verifyPrivateToken(token): the payload, or null.
verifyPrivateToken(tok, t) == jwtVerify(tok, "private", t)

\* The sha256 of a token: the tokens that verify are the tokens logins
\* generated, one per session.
tokenHash(tok) == tok.sid

\* redis.get('session:' + tokenHash)
cacheGet(tok) == cache[tokenHash(tok)] # NoEntry

\* Session.findOne({ _id, user_id, expires_at: { $gt: now } })
sessionFindOne(tok) ==
    /\ tok.sid \in AuthSlots
    /\ sessions[tok.sid].exists
    /\ sessions[tok.sid].user = tok.user
    /\ sessions[tok.sid].expires_at > now

\* The auth requests in service.
AuthInFlight == {a \in AuthSlots : auth[a].pc \notin {"idle", "done"}}

AuthArrives(a, n) ==
    /\ auth[a].pc = "idle"
    /\ \A b \in AuthSlots : b < a => auth[b].pc # "idle"
    /\ Cardinality(AuthInFlight) < n

\* An auth request ends with HTTP status code (the locals that are dead from
\* here on are cleared; a login keeps the token it returned and a logout the
\* token it ended).
AuthAnswer(q, code) ==
    [q EXCEPT !.pc = "done", !.res = code, !.expiresAt = 0,
              !.tok = IF q.op \in {"login", "logout"} /\ code = 200 THEN @ ELSE NoToken]

\* ------------------------------------------------------- POST /auth/login
\* The credentials are checked; expiresAt is taken and Session.create sent.
LoginArrives(a, n) ==
    /\ AuthArrives(a, n)
    /\ \E u \in Callers, valid \in BOOLEAN :
         auth' = [auth EXCEPT ![a] =
                    IF ~valid THEN AuthAnswer([IdleAuth EXCEPT !.op = "login"], 401)
                    ELSE [IdleAuth EXCEPT !.op = "login", !.pc = "create",
                                          !.tok = [NoToken EXCEPT !.user = u],
                                          !.expiresAt = now + privateExpiration * MsPerSecond]]
    /\ UNCHANGED <<now, counter, ctrExpireAt, videos, queues, progress, inflight, stat, req,
                   users, range, sessions, cache>>

\* Session.create with token '' (rejected by the unique index on token while
\* another session still has token ''); the token is generated and
\* session.save() sent.
LoginCreate(a) ==
    /\ auth[a].pc = "create"
    /\ IF \E b \in AuthSlots : sessions[b].exists /\ sessions[b].token = ""
       THEN /\ auth' = [auth EXCEPT ![a] = AuthAnswer(auth[a], 500)]
            /\ UNCHANGED sessions
       ELSE /\ sessions' = [sessions EXCEPT ![a] =
                              [exists |-> TRUE, user |-> auth[a].tok.user,
                               expires_at |-> auth[a].expiresAt, token |-> ""]]
            /\ auth' = [auth EXCEPT ![a].pc = "save", ![a].expiresAt = 0,
                                    ![a].tok = generatePrivateToken(auth[a].tok.user, a, now)]
    /\ UNCHANGED <<now, counter, ctrExpireAt, videos, queues, progress, inflight, stat, req,
                   users, range, cache>>

\* session.save() with the token (fails when the document is gone);
\* redis.set of the cache entry is sent.
LoginSave(a) ==
    /\ auth[a].pc = "save"
    /\ IF sessions[a].exists
       THEN /\ sessions' = [sessions EXCEPT ![a].token = "set"]
            /\ auth' = [auth EXCEPT ![a].pc = "cache"]
       ELSE /\ auth' = [auth EXCEPT ![a] = AuthAnswer(auth[a], 500)]
            /\ UNCHANGED sessions
    /\ UNCHANGED <<now, counter, ctrExpireAt, videos, queues, progress, inflight, stat, req,
                   users, range, cache>>

\* redis.set(session:<hash>, ..., 'EX', privateExpiration), best effort; the
\* token is returned.
LoginCache(a) ==
    /\ auth[a].pc = "cache"
    /\ \E ok \in BOOLEAN :
         cache' = IF ok THEN [cache EXCEPT ![tokenHash(auth[a].tok)] =
                                now + privateExpiration * MsPerSecond]
                  ELSE cache
    /\ auth' = [auth EXCEPT ![a] = AuthAnswer(auth[a], 200)]
    /\ UNCHANGED <<now, counter, ctrExpireAt, videos, queues, progress, inflight, stat, req,
                   users, range, sessions>>

\* ---------------------------------------------------- requirePrivateToken
\* The tokens logins have returned.
Issued == {auth[a].tok : a \in {b \in AuthSlots : auth[b].op = "login" /\ auth[b].res = 200}}

\* The tokens a client can present: issued ones, a user's public token, a
\* forged one, or none.
Presentable ==
    Issued \cup {generatePublicToken(u) : u \in Callers}
           \cup {ForgedToken(u, 1) : u \in Callers} \cup {NoToken}

\* The protected handler starts: next() was called.
handlerStart(q) ==
    IF q.op = "logout" THEN [q EXCEPT !.ran = TRUE, !.pc = "lo_delete"]
    ELSE IF q.op = "chpw" THEN [q EXCEPT !.ran = TRUE, !.pc = "cp_check"]
    ELSE IF q.op = "pubtoken" THEN [q EXCEPT !.ran = TRUE, !.pc = "pt_find"]
    ELSE AuthAnswer([q EXCEPT !.ran = TRUE], 200)

\* A middleware that checks the signature and the kind of the token, not
\* its exp.
afterVerifyIgnoringExpiry(q, t) ==
    IF q.tok = NoToken THEN AuthAnswer([q EXCEPT !.why = "no_token"], 401)
    ELSE IF q.tok.sig # "private" \/ q.tok.type # "private"
    THEN AuthAnswer([q EXCEPT !.why = "bad_token"], 401)
    ELSE [q EXCEPT !.pc = "mw_get"]

\* requirePrivateToken, lines 411-421: no token, or a token that does not
\* verify or is not private: 401; otherwise the cache read is sent.
afterVerify(q, t) ==
    IF q.tok = NoToken THEN AuthAnswer([q EXCEPT !.why = "no_token"], 401)
    ELSE IF ~verifyPrivateToken(q.tok, t) \/ q.tok.type # "private"
    THEN AuthAnswer([q EXCEPT !.why = "bad_token"], 401)
    ELSE [q EXCEPT !.pc = "mw_get"]

\* requirePrivateToken, lines 428-437: a cache entry makes the session
\* valid; otherwise Session.findOne is sent.
afterCacheGet(q, cached) ==
    IF cached THEN handlerStart([q EXCEPT !.cached = TRUE])
    ELSE [q EXCEPT !.pc = "mw_find"]

\* A middleware that trusts the signature: it goes on without a session.
afterFindOneSignatureOnly(q, session) ==
    [q EXCEPT !.session = session, !.pc = "mw_set"]

\* requirePrivateToken, lines 439-449: no session: 401; otherwise the cache
\* write is sent.
afterFindOne(q, session) ==
    IF ~session THEN AuthAnswer([q EXCEPT !.why = "no_session"], 401)
    ELSE [q EXCEPT !.session = TRUE, !.pc = "mw_set"]

\* A token a login issued is presented at time t, at or after the exp that
\* jwt.sign gave it: issuance plus privateExpiration.
pastLifetime(tok, t) == tok \in Issued /\ t >= tok.exp * MsPerSecond

\* A logout of token tok has completed.
LoggedOut(tok) ==
    \E l \in AuthSlots : /\ auth[l].op = "logout" /\ auth[l].pc = "done"
                         /\ auth[l].res = 200 /\ auth[l].tok = tok

\* A request for a protected route arrives with one of the tokens toks.
CallWith(a, n, toks) ==
    /\ AuthArrives(a, n)
    /\ \E op \in {"call", "logout", "chpw"}, tok \in toks :
         auth' = [auth EXCEPT ![a] =
                    afterVerify([IdleAuth EXCEPT !.op = op, !.tok = tok,
                                                 !.afterLogout = LoggedOut(tok) /\ ~cacheGet(tok),
                                                 !.expired = pastLifetime(tok, now)],
                                now)]
    /\ UNCHANGED <<now, counter, ctrExpireAt, videos, queues, progress, inflight, stat, req,
                   users, range, sessions, cache>>

\* A request for a protected route arrives with a token.
CallArrives(a, n) == CallWith(a, n, Presentable)

\* A request for a protected route arrives with a token a login returned.
SessionCallArrives(a, n) == CallWith(a, n, Issued)

\* redis.get replies (a failed read counts as a miss).
MwCacheGet(a) ==
    /\ auth[a].pc = "mw_get"
    /\ \E ok \in BOOLEAN :
         auth' = [auth EXCEPT ![a] = afterCacheGet(auth[a], ok /\ cacheGet(auth[a].tok))]
    /\ UNCHANGED <<now, counter, ctrExpireAt, videos, queues, progress, inflight, stat, req,
                   users, range, sessions, cache>>

\* Session.findOne replies.
MwFindOne(a) ==
    /\ auth[a].pc = "mw_find"
    /\ auth' = [auth EXCEPT ![a] = afterFindOne(auth[a], sessionFindOne(auth[a].tok))]
    /\ UNCHANGED <<now, counter, ctrExpireAt, videos, queues, progress, inflight, stat, req,
                   users, range, sessions, cache>>

\* A middleware that rejects the request when the cache write fails.
MwCacheSetFailClosed(a) ==
    /\ auth[a].pc = "mw_set"
    /\ \E ok \in BOOLEAN :
         /\ cache' = IF ok THEN [cache EXCEPT ![tokenHash(auth[a].tok)] =
                                   now + sessionCacheSeconds * MsPerSecond]
                     ELSE cache
         /\ auth' = [auth EXCEPT ![a] = IF ok THEN handlerStart(auth[a])
                                        ELSE AuthAnswer(auth[a], 401)]
    /\ UNCHANGED <<now, counter, ctrExpireAt, videos, queues, progress, inflight, stat, req,
                   users, range, sessions>>

\* redis.set(session:<hash>, ..., 'EX', 86400), best effort; next().
MwCacheSet(a) ==
    /\ auth[a].pc = "mw_set"
    /\ \E ok \in BOOLEAN :
         cache' = IF ok THEN [cache EXCEPT ![tokenHash(auth[a].tok)] =
                                now + sessionCacheSeconds * MsPerSecond]
                  ELSE cache
    /\ auth' = [auth EXCEPT ![a] = handlerStart(auth[a])]
    /\ UNCHANGED <<now, counter, ctrExpireAt, videos, queues, progress, inflight, stat, req,
                   users, range, sessions>>

\* ---------------------------------------- POST /auth/logout, change-password
\* logout: Session.deleteOne({ _id: req.sessionId }); redis.del is sent.
LogoutDeleteOne(a) ==
    /\ auth[a].pc = "lo_delete"
    /\ sessions' = [sessions EXCEPT ![auth[a].tok.sid] = NoSession]
    /\ auth' = [auth EXCEPT ![a].pc = "lo_del"]
    /\ UNCHANGED <<now, counter, ctrExpireAt, videos, queues, progress, inflight, stat, req,
                   users, range, cache>>

\* logout: redis.del(session:<hash>), best effort; 200.
LogoutCacheDel(a) ==
    /\ auth[a].pc = "lo_del"
    /\ \E ok \in BOOLEAN :
         cache' = IF ok THEN [cache EXCEPT ![tokenHash(auth[a].tok)] = NoEntry] ELSE cache
    /\ auth' = [auth EXCEPT ![a] = AuthAnswer(auth[a], 200)]
    /\ UNCHANGED <<now, counter, ctrExpireAt, videos, queues, progress, inflight, stat, req,
                   users, range, sessions>>

\* change-password: the body and the current password are checked and the
\* new hash is saved; Session.deleteMany is sent.
ChangePasswordCheck(a) ==
    /\ auth[a].pc = "cp_check"
    /\ \E valid \in BOOLEAN :
         auth' = [auth EXCEPT ![a] = IF valid THEN [auth[a] EXCEPT !.pc = "cp_delete"]
                                     ELSE AuthAnswer(auth[a], 401)]
    /\ UNCHANGED <<now, counter, ctrExpireAt, videos, queues, progress, inflight, stat, req,
                   users, range, sessions, cache>>

\* A change-password that deletes only the session of the token presented.
ChangePasswordDeleteOne(a) ==
    /\ auth[a].pc = "cp_delete"
    /\ sessions' = [sessions EXCEPT ![auth[a].tok.sid] = NoSession]
    /\ auth' = [auth EXCEPT ![a] = AuthAnswer(auth[a], 200)]
    /\ UNCHANGED <<now, counter, ctrExpireAt, videos, queues, progress, inflight, stat, req,
                   users, range, cache>>

\* change-password: Session.deleteMany({ user_id }); 200.
ChangePasswordDeleteMany(a) ==
    /\ auth[a].pc = "cp_delete"
    /\ sessions' = [b \in AuthSlots |->
                      IF sessions[b].exists /\ sessions[b].user = auth[a].tok.user
                      THEN NoSession ELSE sessions[b]]
    /\ auth' = [auth EXCEPT ![a] = AuthAnswer(auth[a], 200)]
    /\ UNCHANGED <<now, counter, ctrExpireAt, videos, queues, progress, inflight, stat, req,
                   users, range, cache>>

\* ----------------------------------------------------- requirePublicToken
\* verifyPublicToken(token): the payload, or null.
verifyPublicToken(tok, t) == jwtVerify(tok, "public", t)

\* A request guarded by requirePublicToken ends with HTTP status code; the
\* record keeps the token that was presented.
PublicAnswer(q, code) == [q EXCEPT !.pc = "done", !.res = code]

\* A middleware that does not look at the token it is given.
afterVerifyPublicAnyToken(q, t) ==
    IF q.tok = NoToken THEN PublicAnswer([q EXCEPT !.why = "no_token"], 401)
    ELSE PublicAnswer([q EXCEPT !.ran = TRUE], 200)

\* requirePublicToken, lines 482-496: no token, or a token that does not
\* verify or is not public: 401; otherwise next().
afterVerifyPublic(q, t) ==
    IF q.tok = NoToken THEN PublicAnswer([q EXCEPT !.why = "no_token"], 401)
    ELSE IF ~verifyPublicToken(q.tok, t) \/ q.tok.type # "public"
    THEN PublicAnswer([q EXCEPT !.why = "bad_token"], 401)
    ELSE PublicAnswer([q EXCEPT !.ran = TRUE], 200)

\* A request for a route guarded by requirePublicToken arrives with a token;
\* the middleware has no await.
PublicCallArrives(a, n) ==
    /\ AuthArrives(a, n)
    /\ \E tok \in Presentable :
         auth' = [auth EXCEPT ![a] =
                    afterVerifyPublic([IdleAuth EXCEPT !.op = "pubcall", !.tok = tok], now)]
    /\ UNCHANGED <<now, counter, ctrExpireAt, videos, queues, progress, inflight, stat, req,
                   users, range, sessions, cache>>

\* ------------------------------------------- GET /api/auth/token/public
\* jwt.sign of generatePublicToken at time t: the payload and the iat second.
signPublicToken(u, t) == [tok |-> generatePublicToken(u), iat |-> t \div MsPerSecond]

\* A request for GET /api/auth/token/public arrives with a token a login
\* returned; requirePrivateToken starts.
PublicTokenArrives(a, n) ==
    /\ AuthArrives(a, n)
    /\ \E tok \in Issued :
         auth' = [auth EXCEPT ![a] =
                    afterVerify([IdleAuth EXCEPT !.op = "pubtoken", !.tok = tok], now)]
    /\ UNCHANGED <<now, counter, ctrExpireAt, videos, queues, progress, inflight, stat, req,
                   users, range, sessions, cache>>

\* User.findById replies (the users of the model all exist): a user without
\* public_token gets a generated one and user.save() is sent; otherwise the
\* stored token is returned.
PublicTokenFind(a) ==
    /\ auth[a].pc = "pt_find"
    /\ LET user == users[auth[a].tok.user]
       IN  auth' = [auth EXCEPT ![a] =
                      IF user = NoPublicToken
                      THEN [auth[a] EXCEPT !.pc = "pt_save",
                                           !.public_token =
                                              signPublicToken(auth[a].tok.user, now)]
                      ELSE AuthAnswer([auth[a] EXCEPT !.public_token = user], 200)]
    /\ UNCHANGED <<now, counter, ctrExpireAt, videos, queues, progress, inflight, stat, req,
                   users, range, sessions, cache>>

\* user.save() writes public_token; the token is returned.
PublicTokenSave(a) ==
    /\ auth[a].pc = "pt_save"
    /\ users' = [users EXCEPT ![auth[a].tok.user] = auth[a].public_token]
    /\ auth' = [auth EXCEPT ![a] = AuthAnswer(auth[a], 200)]
    /\ UNCHANGED <<now, counter, ctrExpireAt, videos, queues, progress, inflight, stat, req,
                   range, sessions, cache>>

\* ---------------------------------------------------------- specifications
GuestStep(r) ==
    \/ RlGet(r) \/ RlIncr(r) \/ RlTtl(r) \/ RlExpire(r)
    \/ GuestUpload(r) \/ GuestCreate(r) \/ Rpush(r) \/ Hset(r) \/ Pexpire(r)
    \/ GuestSave(r) \/ RedisThrows(r)

\* Guest requests served concurrently (by one or several api-server
\* instances), at most MaxInFlight at a time, within one UTC day.
NextGuest ==
    \E r \in Slots : GuestStart(r, MaxInFlight) \/ GuestStep(r)

SpecGuest == Init /\ [][NextGuest]_vars

\* Guest requests served one after the other while time passes: a request
\* arrives only when no other is in service.
NextGuestSeq ==
    \/ \E r \in Slots : GuestStart(r, 1) \/ GuestStep(r)
    \/ Tick

SpecGuestSeq == Init /\ [][NextGuestSeq]_vars

\* A few guest requests served one after the other at one instant.
NextQuota ==
    \E r \in 1 .. MaxSeqReq : GuestStart(r, 1) \/ GuestStep(r)

SpecQuota == Init /\ [][NextQuota]_vars

JobStart(r, n) == SaveVideo(r, n) \/ UploadVideo(r, n) \/ StartArrives(r, n)

JobStep(r) ==
    \/ FindById(r) \/ StartProgress(r) \/ Rpush(r) \/ Hset(r) \/ Pexpire(r)
    \/ StartSave(r) \/ RedisThrows(r)

Environment ==
    \/ \E k \in {"download", "encode"} : WorkerTake(k)
    \/ \E m \in inflight : WorkerFinish(m)
    \/ \E v \in Slots : Cleanup(v)
    \/ \E j \in Slots : ProgressExpires(j)

StatusStep ==
    \/ StatusArrives \/ PublicStatusProgress \/ PublicStatusRespond
    \/ OwnerStatusFind \/ OwnerStatusProgress

\* The owners' create and start requests served concurrently, with the
\* workers and the cleanup.
NextJobs ==
    \/ \E r \in Slots : JobStart(r, MaxInFlight) \/ JobStep(r)
    \/ Environment

SpecJobs == Init /\ [][NextJobs]_vars

\* The same requests served one after the other, with the workers, the
\* cleanup and a client polling the status routes.
NextJobsSeq ==
    \/ \E r \in 1 .. MaxSeqReq : JobStart(r, 1) \/ JobStep(r)
    \/ Environment
    \/ StatusStep

SpecJobsSeq == Init /\ [][NextJobsSeq]_vars

\* One login, then its owner's requests for the public token served
\* concurrently while time passes.
NextPublicToken ==
    \/ \E a \in 1 .. MaxLogins : LoginArrives(a, 1)
    \/ \E a \in AuthSlots :
          \/ PublicTokenArrives(a, MaxInFlight)
          \/ LoginCreate(a) \/ LoginSave(a) \/ LoginCache(a)
          \/ MwCacheGet(a) \/ MwFindOne(a) \/ MwCacheSet(a)
          \/ PublicTokenFind(a) \/ PublicTokenSave(a)
    \/ Tick

SpecPublicToken == Init /\ [][NextPublicToken]_vars

\* The owners' create and start requests served one after the other, with
\* workers that may finish a job before the request that queued it has
\* written the record.
NextRace ==
    \/ \E r \in 1 .. MaxSeqReq : JobStart(r, 1) \/ JobStep(r)
    \/ \E k \in {"download", "encode"} : WorkerTake(k)
    \/ \E m \in inflight : WorkerFinish(m) \/ WorkerFinishEarly(m)

SpecRace == Init /\ [][NextRace]_vars

\* The ceiling a route passes to validateTimeRange.
ceilingOf(route) == IF route = "clip" THEN maxClipDuration ELSE maxVideoDuration

\* The time ranges put to the validation of the two routes.
Ranges ==
    { [pc |-> "input", route |-> rt, startTime |-> st, endTime |-> st + d, valid |-> FALSE] :
        rt \in {"clip", "save"}, st \in -1 .. MaxStart,
        d \in (-1 .. Slack) \cup (maxClipDuration - Slack .. maxClipDuration + Slack)
                \cup (maxVideoDuration - Slack .. maxVideoDuration + Slack) }

InitRanges ==
    /\ InitStores
    /\ range \in Ranges

\* POST /api/public/clip and POST /api/video/save validate the body: the
\* fields are there, the url is a YouTube url, start_time and end_time
\* parse to startNum and endNum.
ValidateRange ==
    /\ range.pc = "input"
    /\ LET b == [file |-> FALSE, fields |-> TRUE, url |-> "ok",
                 start |-> Num(range.startTime), end |-> Num(range.endTime)]
       IN  range' = [range EXCEPT !.pc = "done",
                                  !.valid = IF range.route = "clip" THEN clipValid(b)
                                            ELSE saveValid(b)]
    /\ UNCHANGED <<now, counter, ctrExpireAt, videos, queues, progress, inflight, stat, req,
                   sessions, cache, auth, users>>

NextRanges == ValidateRange

SpecRanges == InitRanges /\ [][NextRanges]_vars

\* One client's guest requests and its owner's create and start requests,
\* served one after the other.
NextPools ==
    \E r \in Slots : \/ GuestStart(r, 1) \/ GuestStep(r)
                     \/ JobStart(r, 1)
                     \/ FindById(r) \/ StartProgress(r) \/ StartSave(r)

SpecPools == Init /\ [][NextPools]_vars

AuthStep(a) ==
    \/ LoginCreate(a) \/ LoginSave(a) \/ LoginCache(a)
    \/ MwCacheGet(a) \/ MwFindOne(a) \/ MwCacheSet(a)
    \/ LogoutDeleteOne(a) \/ LogoutCacheDel(a)
    \/ ChangePasswordCheck(a) \/ ChangePasswordDeleteMany(a)

\* Logins and calls of protected routes, served concurrently while time
\* passes.
NextAuth ==
    \/ \E a \in AuthReqs : LoginArrives(a, MaxInFlight) \/ CallArrives(a, MaxInFlight)
                              \/ AuthStep(a)
    \/ Tick

SpecAuth == Init /\ [][NextAuth]_vars

\* Logins and calls of the routes guarded by either middleware, served
\* concurrently, with every kind of token presented to both.
NextTokens ==
    \E a \in AuthReqs : \/ LoginArrives(a, MaxInFlight) \/ CallArrives(a, MaxInFlight)
                        \/ PublicCallArrives(a, MaxInFlight) \/ AuthStep(a)

SpecTokens == Init /\ [][NextTokens]_vars

\* One session: a login, then requests with the token it returned, served
\* concurrently while time passes.
NextSession ==
    \/ \E a \in 1 .. MaxLogins : LoginArrives(a, MaxInFlight)
    \/ \E a \in AuthSlots : SessionCallArrives(a, MaxInFlight) \/ AuthStep(a)
    \/ Tick

SpecSession == Init /\ [][NextSession]_vars

\* Several logins of one owner and requests with the tokens they returned,
\* served concurrently.
NextPassword ==
    \E a \in AuthSlots : \/ LoginArrives(a, MaxInFlight) \/ SessionCallArrives(a, MaxInFlight)
                         \/ AuthStep(a)

SpecPassword == Init /\ [][NextPassword]_vars

\* ------------------------------------------------------------------ claims
\* The calls of fingerprint f that checkRateLimit admitted on UTC day d.
AdmittedOn(f, d) ==
    {r \in Slots : req[r].fp = f /\ req[r].allowed = "yes" /\ req[r].day = d}

Days == 0 .. DayOf(MaxTime)

\* C1: for one fingerprint within one UTC day at most rateLimit guest create
\* calls are admitted, and a refused call is answered 429 with remaining 0
\* and has no Video record and no queue message.
C1_DailyQuota ==
    /\ \A f \in Fingerprints, d \in Days : Cardinality(AdmittedOn(f, d)) <= rateLimit
    /\ \A r \in Slots :
         req[r].allowed = "no" =>
            /\ req[r].res = 429
            /\ req[r].remaining = 0
            /\ videos[r] = NoVideo
            /\ \A m \in Queued : m.job_id # r

\* C2: under every interleaving of concurrent checkRateLimit calls of one
\* fingerprint within one UTC day, at most rateLimit calls return allowed
\* and the stored counter never exceeds rateLimit.
C2_RaceFreeAdmission ==
    \A f \in Fingerprints :
        /\ counter[f] <= rateLimit
        /\ Cardinality({r \in Slots : req[r].fp = f /\ req[r].allowed = "yes"}) <= rateLimit

\* C3: a guest create whose descriptor is invalid leaves the fingerprint
\* counter as it was (no step of such a call changes it), and no Video
\* record or queue message exists for a call answered 400.
C3_ValidationBeforeQuota ==
    /\ [][\A r \in Slots :
            (/\ req[r].pc \in {"rl_get", "rl_incr", "rl_ttl", "rl_expire"}
             /\ ~req[r].valid
             /\ req'[r] # req[r]) => counter' = counter]_vars
    /\ [](\A r \in Slots :
            req[r].res = 400 => videos[r] = NoVideo /\ \A m \in Queued : m.job_id # r)

\* C4: after a guest create whose enqueue step failed (answered 500 after
\* the record was created), the record is not pending or processing
\* without a queue message carrying it.
C4_NoDanglingRecord ==
    \A r \in Slots :
        (req[r].pc = "done" /\ req[r].res = 500 /\ req[r].vid # NoId) =>
            \/ videos[req[r].vid].status \notin {"pending", "processing"}
            \/ LiveMessages(req[r].vid) # {}

\* C5: a record that is pending or processing has at most one live queue
\* message, also when start requests for it run concurrently.
C5_OneLiveMessage ==
    \A v \in Slots :
        videos[v].status \in {"pending", "processing"} =>
            Cardinality(LiveMessages(v)) <= 1

\* The status changes the lifecycle allows: pending -> processing ->
\* completed | failed -> expired, and failed back to pending (or, with the
\* retry's two writes seen as one, to processing).
AllowedEdges ==
    { <<"none", "pending">>, <<"none", "processing">>, <<"pending", "processing">>,
      <<"processing", "completed">>, <<"processing", "failed">>,
      <<"completed", "expired">>, <<"failed", "expired">>,
      <<"failed", "pending">>, <<"failed", "processing">> }

\* C6: every change of a record's status, by a request, the worker or the
\* cleanup, is an edge of the lifecycle; in particular no request moves a
\* record out of completed or expired.
C6_StatusLifecycle ==
    [][\A v \in Slots :
          videos'[v].status # videos[v].status =>
              <<videos[v].status, videos'[v].status>> \in AllowedEdges]_vars

\* C7: a start request that read its record as processing, completed or
\* expired writes no queue message (and so no progress entry, job_id or
\* status).
C7_ResubmissionRejected ==
    \A r \in Slots :
        req[r].seen \in {"processing", "completed", "expired"} => req[r].jobId = NoId

\* C8: no two retry requests that read the same failed job of a record both
\* enqueue a job.
C8_RetryCompareAndSet ==
    \A r1, r2 \in Slots :
        (/\ r1 # r2
         /\ req[r1].seen = "failed" /\ req[r2].seen = "failed"
         /\ req[r1].vid = req[r2].vid
         /\ req[r1].seenJob = req[r2].seenJob) =>
            ~(req[r1].jobId # NoId /\ req[r2].jobId # NoId)

NonTerminalPhases == {"queued", "initializing", "downloading", "encoding", "processing"}

\* C9: a status response that reports a terminal status (completed, failed,
\* expired) carries no non-terminal phase or progress.
C9_TerminalStatusResponse ==
    (stat.pc = "done" /\ stat.resp.status \in {"completed", "failed", "expired"}) =>
        /\ stat.resp.current_phase \notin NonTerminalPhases
        /\ stat.resp.progress \notin NonTerminalPhases

\* A cache entry exists under the hash of token tok.
CacheEntryFor(tok) == tok.sid \in AuthSlots /\ cache[tok.sid] # NoEntry

\* A durable session matches tok's session id and owner and has not expired.
LiveSessionFor(tok) ==
    /\ tok.sid \in AuthSlots
    /\ sessions[tok.sid].exists
    /\ sessions[tok.sid].user = tok.user
    /\ sessions[tok.sid].expires_at > now

\* C10: requirePrivateToken lets the protected handler run only after the
\* cache or the session lookup confirmed the token, each confirmation is
\* true of the store at the time of the lookup, and a lookup that finds no
\* live session after a cache miss ends the request with 401 without
\* running the handler.
C10_SessionRequired ==
    /\ [](\A a \in AuthSlots : auth[a].ran => auth[a].cached \/ auth[a].session)
    /\ [][\A a \in AuthSlots :
            /\ (~auth[a].cached /\ auth'[a].cached) => CacheEntryFor(auth[a].tok)
            /\ (~auth[a].session /\ auth'[a].session) => LiveSessionFor(auth[a].tok)
            /\ (auth[a].pc = "mw_find" /\ auth'[a] # auth[a] /\ ~LiveSessionFor(auth[a].tok)) =>
                  auth'[a].pc = "done" /\ auth'[a].res = 401 /\ ~auth'[a].ran]_vars

\* A token with a valid signature and type private, with no cache entry and
\* no live session, was rejected with 401 and the handler did not run.
C10_RejectedWithoutSession ==
    \E a \in AuthSlots :
        /\ auth[a].pc = "done"
        /\ auth[a].why = "no_session"
        /\ auth[a].res = 401
        /\ ~auth[a].ran
        /\ ~auth[a].cached /\ ~auth[a].session

\* The routes guarded by requirePrivateToken.
PrivateOps == {"call", "logout", "chpw"}

\* C11: the two token kinds are not interchangeable: whenever a handler
\* guarded by requirePrivateToken starts, the token presented was signed
\* as a private token and is of type private, and whenever a handler
\* guarded by requirePublicToken has run, the token presented is a token of
\* generatePublicToken; a request that gets past the verification of
\* requirePrivateToken never carries a public token.
C11_TokenKindsSeparate ==
    /\ [][\A a \in AuthSlots :
            (auth[a].op \in PrivateOps /\ ~auth[a].ran /\ auth'[a].ran)
               => /\ auth[a].tok.sig = "private"
                  /\ auth[a].tok.type = "private"
                  /\ auth[a].tok \notin {generatePublicToken(u) : u \in Users}]_vars
    /\ [](\A a \in AuthSlots :
            /\ (auth[a].op \in PrivateOps /\ auth[a].pc \notin {"idle", "done"})
                  => auth[a].tok.sig = "private" /\ auth[a].tok.type = "private"
            /\ (auth[a].op = "pubcall" /\ auth[a].ran)
                  => /\ auth[a].tok \in {generatePublicToken(u) : u \in Users}
                     /\ auth[a].tok \notin Issued
            /\ (auth[a].op = "pubcall" /\ auth[a].tok \in Issued)
                  => auth[a].res = 401 /\ ~auth[a].ran)

\* A token a login returned was presented to requirePublicToken and refused.
C11_PrivateTokenRefusedOnPublicRoute ==
    \E a \in AuthSlots :
        /\ auth[a].op = "pubcall" /\ auth[a].tok \in Issued
        /\ auth[a].res = 401 /\ ~auth[a].ran /\ auth[a].why = "bad_token"

\* C12: a request that presents a token a login returned is refused by the
\* session check only when the token has no live Session, and a request
\* that arrives after a logout of its token has completed, the token having
\* no cache entry (deleted, or expired), is never let through: its handler
\* does not run and it is answered 401.
C12_AcceptedUntilLogout ==
    /\ [][\A b \in AuthSlots :
            (auth[b].pc \in {"mw_get", "mw_find"} /\ auth'[b].res = 401)
               => ~LiveSessionFor(auth[b].tok)]_vars
    /\ [](\A b \in AuthSlots :
            auth[b].afterLogout => /\ ~auth[b].ran
                                   /\ auth[b].pc = "done" => auth[b].res = 401)

\* The Session a login created under id s has been deleted.
SessionDeleted(s) ==
    /\ auth[s].op = "login" /\ auth[s].tok.sid = s
    /\ ~sessions[s].exists

\* C13: staleness after revocation is bounded: once the Session of a token
\* has been deleted it does not come back and no cache entry is written for
\* the token any more, so that the token can pass only through an entry
\* written before the deletion; and every cache entry expires within one
\* cache TTL of the time it is read at, so that the token is refused once
\* one cache TTL has passed since the deletion.
C13_BoundedStaleness ==
    /\ [][\A s \in AuthSlots :
            SessionDeleted(s) => /\ ~sessions'[s].exists
                                 /\ cache'[s] \in {cache[s], NoEntry}]_vars
    /\ [](\A s \in AuthSlots :
            cache[s] # NoEntry => cache[s] <= now + sessionCacheSeconds * MsPerSecond)

\* C14: when a change-password request completes with 200 no Session of its
\* owner is left, a deleted Session never comes back, and a verification
\* that misses the cache refuses a token whose Session does not exist: the
\* tokens the owner was issued before the change are refused on a cache
\* miss.
C14_PasswordChangeRevokes ==
    /\ [][\A a \in AuthSlots :
            (auth[a].pc = "cp_delete" /\ auth'[a].res = 200)
               => \A s \in AuthSlots :
                     ~(sessions'[s].exists /\ sessions'[s].user = auth[a].tok.user)]_vars
    /\ [][\A s \in AuthSlots :
            (auth[s].op = "login" /\ auth[s].tok.sid = s /\ ~sessions[s].exists)
               => ~sessions'[s].exists]_vars
    /\ [][\A b \in AuthSlots :
            (auth[b].pc = "mw_find" /\ ~sessions[auth[b].tok.sid].exists)
               => \/ auth'[b] = auth[b]
                  \/ auth'[b].res = 401 /\ ~auth'[b].ran]_vars

\* Two logins returned tokens, a change-password completed, and a request
\* that missed the cache was refused for want of a session.
C14_BothSessionsRevoked ==
    \E l1, l2, a, b \in AuthSlots :
        /\ l1 # l2
        /\ auth[l1].op = "login" /\ auth[l1].res = 200
        /\ auth[l2].op = "login" /\ auth[l2].res = 200
        /\ auth[a].op = "chpw" /\ auth[a].res = 200
        /\ auth[b].op = "call" /\ auth[b].res = 401 /\ auth[b].why = "no_session"
        /\ \A s \in AuthSlots : ~sessions[s].exists

\* C15: the session cache is invalidated on logout and on change-password:
\* at the step that completes either operation no cache entry is left for
\* a token whose Session the operation deleted (a logout whose redis.del
\* failed leaves the cache as it was).
C15_ProactiveInvalidation ==
    [][\A a \in AuthSlots :
         /\ (auth[a].pc = "lo_del" /\ auth'[a].res = 200)
               => \/ cache'[auth[a].tok.sid] = NoEntry
                  \/ cache' = cache
         /\ (auth[a].pc = "cp_delete" /\ auth'[a].res = 200)
               => \A s \in AuthSlots :
                     (sessions[s].exists /\ ~sessions'[s].exists) => cache'[s] = NoEntry]_vars

\* C16: a guest create during which a Redis command of checkRateLimit (GET,
\* INCR, TTL or EXPIRE) rejected does not succeed: as long as checkRateLimit
\* has not returned, the request has no Video record, no queue message and
\* no progress entry, and it is answered 500.
C16_FailClosed ==
    \A r \in Slots :
        req[r].allowed = "unknown" =>
            /\ videos[r] = NoVideo
            /\ \A m \in Queued : m.job_id # r
            /\ progress[r] = NoProgress
            /\ req[r].pc = "done" => req[r].res = 500

\* A call was answered 500 after its increment: Redis rejected TTL or
\* EXPIRE.
C16_RejectedAfterIncrement ==
    \E r \in Slots :
        /\ req[r].pc = "done" /\ req[r].allowed = "unknown" /\ req[r].res = 500
        /\ counter[req[r].fp] > 0
        /\ \A s \in Slots : s # r => req[s].pc = "idle"

\* C17: a checkRateLimit call that reads a count at or above the limit
\* returns allowed = false with remaining 0 (unless the read itself
\* rejects), and the step leaves the counter and the expiry of the key as
\* they were.
C17_RefusalWritesNothing ==
    /\ [][\A r \in Slots :
            /\ (req[r].pc = "rl_get" /\ req'[r].allowed = "no")
                  => /\ counter' = counter
                     /\ ctrExpireAt' = ctrExpireAt
                     /\ req'[r].remaining = 0
            /\ (req[r].pc = "rl_get" /\ counter[req[r].fp] >= rateLimit /\ req'[r] # req[r])
                  => /\ req'[r].pc = "done"
                     /\ req'[r].allowed = "no" \/ req'[r].res = 500]_vars
    /\ [](\A r \in Slots :
            req[r].allowed = "no" => /\ req[r].remaining = 0
                                     /\ req[r].res = 429)

\* A call was refused and the counter stands at the limit.
C17_RefusedAtLimit ==
    \E r \in Slots :
        /\ req[r].allowed = "no" /\ req[r].res = 429
        /\ counter[req[r].fp] = rateLimit
        /\ ctrExpireAt[req[r].fp] # NoExpiry

\* The calls of the fingerprint and UTC day of call r that checkRateLimit
\* admitted, up to slot n (calls are served in the order of their slots).
AdmittedUpTo(r, n) == {s \in AdmittedOn(req[r].fp, req[r].day) : s <= n}

\* C18: with the calls served one after the other and no Redis command
\* rejected, the k-th call of a fingerprint that checkRateLimit admits
\* within one UTC day returns remaining = rateLimit - k, and a call is
\* refused (429, remaining 0) exactly when rateLimit calls of that day were
\* admitted before it.
C18_RemainingCountsDown ==
    (\A s \in Slots : req[s].res # 500) =>
        \A r \in Slots :
            /\ req[r].allowed = "yes"
                  => req[r].remaining = rateLimit - Cardinality(AdmittedUpTo(r, r))
            /\ req[r].allowed = "no"
                  => /\ req[r].remaining = 0
                     /\ req[r].res = 429
                     /\ Cardinality(AdmittedUpTo(r, r)) = rateLimit

\* The routes of the guest pool.
GuestKinds == {"clip", "encode"}

\* C19: the guest and the authenticated pools are independent: a step of an
\* authenticated create or start request leaves every fingerprint counter
\* and its expiry unchanged, such a request never passes through
\* checkRateLimit and is never answered 429, and a start request that reads
\* a pending record of its owner goes on to queue the job whatever the
\* counters are.
C19_PoolsIndependent ==
    [][\A r \in Slots :
         /\ (/\ req'[r] # req[r]
             /\ req[r].kind \notin GuestKinds /\ req'[r].kind \notin GuestKinds)
               => /\ counter' = counter
                  /\ ctrExpireAt' = ctrExpireAt
                  /\ req'[r].allowed = "unknown"
                  /\ req'[r].res # 429
         /\ (/\ req[r].pc = "findById" /\ req'[r] # req[r]
             /\ findById(req[r].vid).status = "pending"
             /\ findById(req[r].vid).user_id = req[r].user)
               => req'[r].pc = "rpush"]_vars

\* An owner's start request was queued after the client's guest quota had
\* been used up.
C19_StartedAfterQuotaExhausted ==
    \E r \in Slots, f \in Fingerprints :
        /\ req[r].msg = "queued" /\ req[r].res = 200
        /\ counter[f] = rateLimit
        /\ Cardinality({s \in Slots : s < r /\ req[s].fp = f /\ req[s].allowed = "yes"})
              = rateLimit

\* C20: denial does not outlast its UTC day: once the day of a refused call
\* has passed (the time is after the reset_at the refusal returned) and no
\* further call of the fingerprint has been issued, the counter of the
\* fingerprint is below the limit again, so that the next create is
\* admitted.
C20_ResetAtDayBoundary ==
    \A r \in Slots :
        (/\ req[r].allowed = "no"
         /\ now > resetAtOf(req[r].day * DayMs)
         /\ \A s \in Slots : s > r => req[s].pc = "idle")
            => counter[req[r].fp] < rateLimit

\* C21: at the step that answers a guest create with 201, the Video record
\* of the job has status pending and the progress entry of the job exists
\* with phase queued.
C21_CreatedPendingAndQueued ==
    [][\A r \in Slots :
         (req[r].kind \in GuestKinds /\ req[r].pc = "save" /\ req'[r].res = 201)
            => /\ videos'[req[r].vid].status = "pending"
               /\ progress'[req[r].jobId].status # "none"
               /\ progress'[req[r].jobId].current_phase = "queued"]_vars

\* The phase a status response reports: current_phase on the public route,
\* progress.current_phase on the owners' routes.
phaseOf(s) == IF s.route = "public" THEN s.resp.current_phase ELSE s.resp.progress

NonTerminalStatuses == {"pending", "processing"}

\* C22: at the step that answers a status query with 200 for the record of
\* an enqueued job whose status is pending or processing, the reported phase
\* is the phase of the progress entry the handler read when it read one, and
\* queued when there was none.
C22_PhaseFromProgressOrQueued ==
    [][(stat.pc # "done" /\ stat'.pc = "done" /\ stat'.res = 200
           /\ stat'.resp.status \in NonTerminalStatuses
           /\ (stat.route # "public" => videos[stat.id].job_id # NoId))
         => LET read == IF stat.route = "public" THEN stat.prog
                        ELSE IF stat.pc = "hgetall"
                             THEN getProgress(videos[stat.id].job_id)
                             ELSE NoProgress
            IN  IF read.status = "none"
                THEN phaseOf(stat') = "queued"
                ELSE phaseOf(stat') \in {read.current_phase, "queued"}]_vars

TerminalStatuses == {"completed", "failed"}

\* C23: a status response answered 200 for a terminal job carries the result
\* reference only with status completed, the error message only with status
\* failed, and never both.
C23_ResultXorError ==
    (stat.pc = "done" /\ stat.res = 200 /\ stat.resp.status \in TerminalStatuses)
       => /\ stat.resp.file => stat.resp.status = "completed"
          /\ stat.resp.error_message => stat.resp.status = "failed"
          /\ ~(stat.resp.file /\ stat.resp.error_message)

\* The job ids that a create or start call has returned with success.
ReturnedJobIds ==
    {j \in Slots : req[j].pc = "done" /\ req[j].jobId = j /\ req[j].res \in {200, 201}}

\* C24: at the step that answers a status query for a job id that a create
\* call has returned with success, a Video record carries that job id and
\* the reported status is that record's status.
C24_StatusFromRecord ==
    [][(stat.route = "public" /\ stat.pc = "findOne" /\ stat'.pc = "done"
           /\ stat.id \in ReturnedJobIds)
         => \E v \in Slots : /\ videos[v].job_id = stat.id
                             /\ stat'.resp.status = videos[v].status]_vars

\* The requests requirePrivateToken has rejected: answered 401 before the
\* protected handler ran.
RejectedByMiddleware ==
    {a \in AuthSlots : /\ auth[a].op \in PrivateOps /\ auth[a].pc = "done"
                       /\ auth[a].res = 401 /\ ~auth[a].ran}

\* C25: any two requests rejected by requirePrivateToken received the same
\* response: the same status code and the same body.
C25_RejectionsIndistinguishable ==
    \A a, b \in RejectedByMiddleware :
       auth[a].res = auth[b].res /\ auth[a].why = auth[b].why

\* The requests for the public token that were answered with a token.
PublicTokenAnswers ==
    {a \in AuthSlots : auth[a].op = "pubtoken" /\ auth[a].pc = "done" /\ auth[a].res = 200}

\* C26: all answers of GET /api/auth/token/public to one owner carry the same
\* token, and the step that writes the owner's public_token is taken only
\* while the owner has none.
C26_PublicTokenIdempotent ==
    /\ [](\A a, b \in PublicTokenAnswers :
            auth[a].tok.user = auth[b].tok.user
               => auth[a].public_token = auth[b].public_token)
    /\ [][\A a \in AuthSlots :
            (auth[a].pc = "pt_save" /\ auth'[a].pc = "done")
               => users[auth[a].tok.user] = NoPublicToken]_vars

\* C27: the step of POST /api/video/save that creates a record gives it the
\* owner of the public token the request presented.
C27_SavedForTokenOwner ==
    [][\A r \in Slots :
         (/\ req[r].pc = "idle" /\ req'[r].res = 201
          /\ videos[r].status = "none" /\ videos'[r].job_type = "download")
            => videos'[r].user_id = req'[r].user]_vars

\* The record a status request is about: by job id on the public route, by
\* _id on the owners' routes.
recordOf(s) == IF s.route = "public" THEN findOneByJob(s.id) ELSE findById(s.id)

\* C28: a status request is answered with the status of an owner's record
\* only on a route that authenticated that owner with a private token: never
\* on the public route, which takes no token, and on the owners' routes only
\* when the record's owner is a caller that authenticates; a refused request
\* leaves the stores as they were.
C28_StatusOwnerScoped ==
    [][(stat.pc \in {"findOne", "findById"} /\ stat'.pc \in {"done", "hgetall"}
           /\ recordOf(stat).user_id \in Users)
         => /\ stat'.resp.status = recordOf(stat).status
               => (stat.route # "public" /\ recordOf(stat).user_id \in Callers)
            /\ stat'.res \in {403, 404}
               => UNCHANGED <<videos, queues, progress, sessions, cache, users>>]_vars

\* C29, as stated: every guest create answered 201 carries remaining > 0 and
\* every one answered 429 carries remaining 0.
C29_SuccessHasRemaining ==
    \A r \in Slots :
       /\ (req[r].pc = "done" /\ req[r].res = 201) => req[r].remaining > 0
       /\ (req[r].pc = "done" /\ req[r].res = 429) => req[r].remaining = 0

\* C29, amended: every guest create answered 201 carries the remaining of
\* the admission check, between 0 and rateLimit - 1 (0 for the call that
\* reaches the limit); every one answered 429 carries remaining 0, and the
\* step that refuses it takes reset_at from the day of the admission check.
C29_RemainingOfAdmission ==
    /\ [](\A r \in Slots :
            /\ (req[r].pc = "done" /\ req[r].res = 201)
                  => /\ req[r].allowed = "yes"
                     /\ req[r].remaining \in 0 .. rateLimit - 1
            /\ (req[r].pc = "done" /\ req[r].res = 429)
                  => /\ req[r].allowed = "no"
                     /\ req[r].remaining = 0)
    /\ [][\A r \in Slots :
            (req[r].pc = "rl_get" /\ req'[r].res = 429)
               => resetAtOf(req'[r].day) = resetAtOf(DayOf(now))]_vars

\* The call that reaches the limit was answered 201 with remaining 0, and a
\* later call was refused.
C29_LastAdmittedThenRefused ==
    \E r, s \in Slots :
        /\ req[r].res = 201 /\ req[r].remaining = 0
        /\ req[s].res = 429 /\ req[s].remaining = 0

\* C30: a request that presents a private token at or after the token's
\* exp (issuance plus privateExpiration) is never accepted by
\* requirePrivateToken: it is answered 401 before the handler runs, whatever
\* the sessions collection and the session cache hold.
C30_TokenTimeBound ==
    \A a \in AuthSlots :
       (auth[a].op \in PrivateOps /\ auth[a].expired)
          => /\ ~auth[a].ran
             /\ auth[a].pc = "done"
             /\ auth[a].res = 401

\* A request presented a login's token after its lifetime and was refused
\* while a cache entry of that token outlived the token, an earlier request
\* having gone through Session.findOne and the cache write.
C30_RefusedDespiteLiveCacheEntry ==
    \E a \in AuthSlots :
        /\ auth[a].op \in PrivateOps /\ auth[a].expired /\ auth[a].res = 401
        /\ \E tok \in Issued : /\ now >= tok.exp * MsPerSecond
                                /\ cache[tokenHash(tok)] > tok.exp * MsPerSecond
        /\ \E b \in AuthSlots : auth[b].op = "call" /\ auth[b].session /\ auth[b].res = 200

\* C31: after a cache miss or a failed cache read requirePrivateToken goes
\* on to Session.findOne and decides by it alone: a live session of the
\* token's id and owner leads to the cache write, no such session to 401;
\* the step of the cache write accepts the request whether the write
\* succeeds or fails, and a write that succeeds leaves an entry under the
\* token's hash.
C31_ReadThrough ==
    [][\A a \in AuthSlots :
         /\ (auth[a].pc = "mw_get" /\ auth'[a] # auth[a] /\ ~auth'[a].cached)
               => /\ auth'[a].pc = "mw_find"
                  /\ ~auth'[a].ran
         /\ (auth[a].pc = "mw_find" /\ auth'[a] # auth[a])
               => IF LiveSessionFor(auth[a].tok)
                  THEN auth'[a].pc = "mw_set" /\ auth'[a].session
                  ELSE auth'[a].pc = "done" /\ auth'[a].res = 401 /\ ~auth'[a].ran
         /\ (auth[a].pc = "mw_set" /\ auth'[a] # auth[a])
               => /\ auth'[a].ran
                  /\ auth'[a].res # 401
                  /\ \/ cache' = cache
                     \/ cache'[tokenHash(auth[a].tok)] # NoEntry]_vars

\* A call was accepted through the session lookup, not the cache, and the
\* token has no cache entry: the cache write failed.
C31_AcceptedWithoutCache ==
    \E a \in AuthSlots :
        /\ auth[a].op = "call" /\ auth[a].pc = "done" /\ auth[a].res = 200
        /\ auth[a].ran /\ auth[a].session /\ ~auth[a].cached
        /\ \A h \in AuthSlots : cache[h] = NoEntry
        /\ now = 0

\* The job ids in use: of the messages queued or taken by a worker, and of
\* the progress hashes.
JobIdsInUse ==
    {m.job_id : m \in Queued \cup inflight} \cup {j \in Slots : progress[j].status # "none"}

\* C32: the RPUSH step of a request appends exactly one message to the list
\* of its producer - the download list for the routes that call
\* addDownloadJob (guest clip, download start), the encode list for the
\* routes that call addEncodeJob (guest encode, encode start) - and leaves
\* the other list as it was; the message carries a job id that is not in
\* use, and no other step adds a message to a list.
C32_QueuesPartitioned ==
    [][/\ \A r \in Slots :
            (req[r].pc = "rpush" /\ req'[r].pc = "hset")
               => LET mine == IF req[r].kind \in {"clip", "dlstart"} THEN "download"
                              ELSE "encode"
                      other == IF mine = "download" THEN "encode" ELSE "download"
                  IN  /\ Len(queues'[mine]) = Len(queues[mine]) + 1
                      /\ SubSeq(queues'[mine], 1, Len(queues[mine])) = queues[mine]
                      /\ queues'[mine][Len(queues'[mine])].job_id = req'[r].jobId
                      /\ req'[r].jobId \notin JobIdsInUse
                      /\ queues'[other] = queues[other]
       /\ (\E k \in {"download", "encode"} : Len(queues'[k]) > Len(queues[k]))
             => \E r \in Slots : req[r].pc = "rpush" /\ req'[r].pc = "hset"]_vars

\* Both lists hold a message: one pushed for a download start or guest
\* clip, one for an encode start or guest encode.
C32_BothQueuesUsed ==
    /\ queues["download"] # <<>>
    /\ queues["encode"] # <<>>

\* C33: every message in the encode queue has a supported video_codec and
\* a supported quality_preset.
C33_EncodeMessagesValidated ==
    \A i \in 1 .. Len(queues["encode"]) :
       /\ queues["encode"][i].video_codec \in supportedCodecs
       /\ queues["encode"][i].quality_preset \in supportedPresets

\* C34: the validation of a route accepts a time range exactly when
\* start >= 0, end > start and end - start is at most the ceiling of the
\* route: maxClipDuration for the guest clip, maxVideoDuration for the
\* authenticated save.
C34_TimeRangeValid ==
    range.pc = "done"
       => (range.valid <=> /\ range.startTime >= 0
                           /\ range.endTime > range.startTime
                           /\ range.endTime - range.startTime <= ceilingOf(range.route))

\* A guest clip of duration exactly maxClipDuration was accepted.
C34_AcceptedAtCeiling ==
    /\ range.pc = "done" /\ range.route = "clip" /\ range.valid
    /\ range.endTime - range.startTime = maxClipDuration

\* The phases a worker writes to a progress hash.
WorkerPhases == {"downloading", "encoding", "completed", "failed"}

\* C35: no step takes the phase of a progress hash from a phase a worker
\* wrote back to queued.
C35_InitialWriteKeepsWorkerProgress ==
    [][\A j \in Slots :
         progress[j].current_phase \in WorkerPhases
            => progress'[j].current_phase # "queued"]_vars

\* The requests in service that work on record v.
RequestsOn(v) == {r \in InFlight : req[r].vid = v}

\* C36: a record that no request is working on is not left processing
\* without a live queue message: the save of status processing and job_id
\* that follows the enqueue does not replace the status a worker recorded
\* for that job.
C36_NoOrphanedProcessing ==
    \A v \in Slots :
       (videos[v].status = "processing" /\ RequestsOn(v) = {})
          => LiveMessages(v) # {}

\* C37: the step of requirePrivateToken that writes the cache entry of a
\* token is taken only while the Session of that token exists.
C37_NoCacheWriteAfterDeletion ==
    [][\A a \in AuthSlots :
         (/\ auth[a].pc = "mw_set" /\ auth'[a].pc # "mw_set"
          /\ cache'[tokenHash(auth[a].tok)] # cache[tokenHash(auth[a].tok)])
            => sessions[auth[a].tok.sid].exists]_vars


\* C38: Session.create of a login with valid credentials is never rejected:
\* the login goes on to store its token.
C38_LoginsDoNotInterfere ==
    [][\A a \in AuthSlots : auth[a].pc = "create" => auth'[a].pc \in {"create", "save"}]_vars


\* The calls of checkRateLimit in progress for fingerprint f.
RateLimitCalls(f) ==
    {r \in Slots : req[r].fp = f /\ req[r].pc \in {"rl_get", "rl_incr", "rl_ttl", "rl_expire"}}

\* C39: while no checkRateLimit call is in progress for a fingerprint, its
\* counter key does not exist or has an expiry no later than the end of the
\* current UTC day.
C39_CounterKeyExpires ==
    \A f \in Fingerprints :
        RateLimitCalls(f) = {}
           => \/ counter[f] = 0
              \/ /\ ctrExpireAt[f] # NoExpiry
                 /\ ctrExpireAt[f] <= (DayOf(now) + 1) * DayMs

====
